---- MODULE Spec2Model ----
(***************************************************************************)
(* Query Resolution Pipeline of the sales-analysis chatbot:                *)
(*   - sql_guard.py      : extract_sql_from_response, sanitize_sql,        *)
(*                         validate_and_sanitize_sql                       *)
(*   - query_templates.py: get_fallback_templates, get_default_query,      *)
(*                         find_best_template                              *)
(*   - chatbot_app.py    : execute_sql_query, process_user_query           *)
(*                                                                         *)
(* A Python str is modelled as a sequence of one-character strings, so     *)
(* that the regular expressions and the str methods of the source are      *)
(* computed character by character.  A character a TLA+ string cannot     *)
(* hold (the backquote, anything outside ASCII) is written by its code     *)
(* point ("u0060", "u6708") and is one character like the others.          *)
(***************************************************************************)
EXTENDS Integers, Sequences, FiniteSets, TLC

VARIABLES
    gpc,           \* a caller of the Guard: "g_ready", "g_done", "g_again"
    call,          \* the entry point it called
    input,         \* the string it passed
    guard,         \* what the Guard returned or raised
    again          \* what sanitize_sql returned for the Guard's own output

gvars == <<gpc, call, input, guard, again>>

VARIABLES
    rpc,           \* a caller of the Template Resolver: "r_ready", "r_done", "r_checked"
    query,         \* the user text it passed
    resolved,      \* the (sql, name) pair find_best_template returned
    resolved_again, \* the pair a second call with the same text returned
    checked        \* what sanitize_sql returned for the resolved sql

rvars == <<rpc, query, resolved, resolved_again, checked>>

VARIABLES
    pc,            \* position of process_user_query
    sales_data,    \* chatbot_app.py:21, TRUE when the data frame was loaded
    llm_client,    \* chatbot_app.py:18, TRUE when a client was created
    user_query,    \* the argument of process_user_query
    llm_response,  \* what generate_sql returned
    validated,     \* what validate_and_sanitize_sql returned or raised in this run
    found,         \* what find_best_template returned in this run
    executed_sql, result_df, is_fallback, template_name,   \* the locals of lines 74-77
    executed,      \* the strings passed to db_conn.execute, in order
    results,       \* what db_conn.execute(...).fetchdf() did for each of them
    calls,         \* the collaborators and components called in this run, in order,
                   \* each exception of the Language Model Service after its call
    shown,         \* the st.warning / st.info / st.error messages, in order
    returned,      \* the tuple process_user_query returned
    response_content   \* what the chat handler added to the history (lines 146-158)

pvars == <<pc, sales_data, llm_client, user_query, llm_response, validated, found,
           executed_sql, result_df, is_fallback, template_name, executed, results, calls,
           shown, returned, response_content>>

VARIABLES
    npc,           \* position of generate_analysis_summary: "n_ready", "n_llm", "n_done"
    nargs,         \* its arguments
    summary        \* the summary it returned

nvars == <<npc, nargs, summary>>

VARIABLES
    runs,          \* concurrent sessions: for each its run of process_user_query
    conn           \* db_conn (chatbot_app.py:22), the one connection that
                   \* st.cache_resource hands to every session: its pending result

cvars == <<runs, conn>>

vars == <<gvars, rvars, pvars, nvars, cvars>>

(***************************************************************************)
(* Characters and the str / re primitives the source uses.                 *)
(***************************************************************************)
LowerLetters == <<"a","b","c","d","e","f","g","h","i","j","k","l","m",
                  "n","o","p","q","r","s","t","u","v","w","x","y","z">>
UpperLetters == <<"A","B","C","D","E","F","G","H","I","J","K","L","M",
                  "N","O","P","Q","R","S","T","U","V","W","X","Y","Z">>
Digits == {"0","1","2","3","4","5","6","7","8","9"}

ToUpper == [c \in {LowerLetters[i] : i \in DOMAIN LowerLetters} |->
              UpperLetters[CHOOSE i \in DOMAIN LowerLetters : LowerLetters[i] = c]]
ToLower == [c \in {UpperLetters[i] : i \in DOMAIN UpperLetters} |->
              LowerLetters[CHOOSE i \in DOMAIN UpperLetters : UpperLetters[i] = c]]

\* \s of the re module, restricted to the ASCII white space of the model
SpaceChars == {" ", "\t", "\n", "\r"}
IsSpace(c) == c \in SpaceChars
\* \w of the re module: letters, digits and the underscore
WordChars == (DOMAIN ToUpper) \cup (DOMAIN ToLower) \cup Digits \cup {"_"}
IsWord(c) == c \in WordChars

\* the string whose i-th character is f[i], for i in 1..n
Str(f, n) == SubSeq(f, 1, n)

\* str.upper() and str.lower()
upper(s) == Str([i \in 1..Len(s) |-> IF s[i] \in DOMAIN ToUpper THEN ToUpper[s[i]] ELSE s[i]], Len(s))
lower(s) == Str([i \in 1..Len(s) |-> IF s[i] \in DOMAIN ToLower THEN ToLower[s[i]] ELSE s[i]], Len(s))

\* the first position at or after i of a character outside cls (Len(s) + 1 if none)
RECURSIVE SkipForward(_, _, _)
SkipForward(s, i, cls) ==
    IF i <= Len(s) /\ s[i] \in cls THEN SkipForward(s, i + 1, cls) ELSE i

\* the last position at or before i of a character outside cls (0 if none)
RECURSIVE SkipBackward(_, _, _)
SkipBackward(s, i, cls) ==
    IF i >= 1 /\ s[i] \in cls THEN SkipBackward(s, i - 1, cls) ELSE i

\* str.strip()
strip(s) == SubSeq(s, SkipForward(s, 1, SpaceChars), SkipBackward(s, Len(s), SpaceChars))

\* p == s[i : i + len(p)]
SubAt(s, p, i) ==
    i >= 1 /\ i + Len(p) - 1 <= Len(s) /\ \A j \in 1..Len(p) : s[i + j - 1] = p[j]
\* p in s
Contains(s, p) == \E i \in 1..(Len(s) + 1) : SubAt(s, p, i)
\* s.startswith(p)
startswith(s, p) == SubAt(s, p, 1)

\* ss[lo] \o ... \o ss[hi], by halves (str.join)
RECURSIVE Flatten(_, _, _)
Flatten(ss, lo, hi) ==
    IF lo > hi THEN <<>>
    ELSE IF lo = hi THEN ss[lo]
    ELSE LET mid == (lo + hi) \div 2
         IN  Flatten(ss, lo, mid) \o Flatten(ss, mid + 1, hi)

\* re.sub(cls+, c, s) for a character class cls and a character c: every
\* maximal run of characters of cls becomes the one character c
SubRuns(s, cls, c) ==
    LET kept == SelectSeq([i \in 1..Len(s) |-> i],
                          LAMBDA i : ~(s[i] \in cls /\ i > 1 /\ s[i - 1] \in cls))
    IN  Str([k \in 1..Len(kept) |-> IF s[kept[k]] \in cls THEN c ELSE s[kept[k]]], Len(kept))

\* re.sub(r';+$', '', s): the run of ';' that ends the string is removed
\* ($ also matches before a final newline; sanitize_sql has replaced every
\* newline before it applies this pattern)
SubTrailingSemicolons(s) == SubSeq(s, 1, SkipBackward(s, Len(s), {";"}))

\* \b at the gap before position i (1 .. Len(s) + 1)
WordBoundary(s, i) ==
    (i > 1 /\ IsWord(s[i - 1])) # (i <= Len(s) /\ IsWord(s[i]))

\* re.search(r'\b' + kw + r'\b', s)
SearchWord(s, kw) ==
    \E i \in 1..(Len(s) + 1) :
        SubAt(s, kw, i) /\ WordBoundary(s, i) /\ WordBoundary(s, i + Len(kw))

\* end (exclusive) of the maximal run of \s (space = TRUE) or \w at i
RunEnd(s, i, space) == SkipForward(s, i, IF space THEN SpaceChars ELSE WordChars)

\* does  [\b] kw \s+ (\w+)  match at position i ?
KwTableAt(s, kw, bounded, i) ==
    /\ SubAt(s, kw, i)
    /\ bounded => WordBoundary(s, i)
    /\ LET w == RunEnd(s, i + Len(kw), TRUE)
       IN  w > i + Len(kw) /\ RunEnd(s, w, FALSE) > w

\* re.findall(r'[\b]kw\s+(\w+)', s): the captured words of the
\* non-overlapping matches, left to right, scanning from position from
RECURSIVE FindAllTables(_, _, _, _)
FindAllTables(s, kw, bounded, from) ==
    LET hits == {i \in from..Len(s) : KwTableAt(s, kw, bounded, i)}
    IN  IF hits = {} THEN <<>>
        ELSE LET i == CHOOSE h \in hits : \A k \in hits : h <= k
                 w == RunEnd(s, i + Len(kw), TRUE)
                 e == RunEnd(s, w, FALSE)
             IN  <<SubSeq(s, w, e - 1)>> \o FindAllTables(s, kw, bounded, e)

(***************************************************************************)
(* sql_guard.py                                                            *)
(***************************************************************************)
\* three backquotes (the lexer of TLA+ has no backquote inside a string)
FENCE == <<"u0060","u0060","u0060">>
SQL_TAG == <<"s","q","l">>
KW_SELECT == <<"S","E","L","E","C","T">>
KW_FROM == <<"F","R","O","M">>
KW_JOIN == <<"J","O","I","N">>
ALLOWED_TABLE == <<"S","A","L","E","S">>

\* a result of the Guard: err = "None" and the sanitized sql, or the
\* SQLSecurityException raised (err names the violation, arg is the keyword
\* or table the message quotes)
Ok(sql) == [err |-> "None", sql |-> sql, arg |-> <<>>]
Raise(e, a) == [err |-> e, sql |-> <<>>, arg |-> a]

\* an Optional[str]: a str, or None
Some(s) == [some |-> TRUE, val |-> s]
None == [some |-> FALSE, val |-> <<>>]

\* a faulty OpenFenceAt: the tag is not required: any fence opens a block
OpenFenceAt_untagged(s, i) == SubAt(s, FENCE, i)

\* the opening fence and its sql tag, under re.IGNORECASE, at position i
OpenFenceAt(s, i) == SubAt(s, FENCE, i) /\ i + 5 <= Len(s) /\ lower(SubSeq(s, i + 3, i + 5)) = SQL_TAG

\* extract_sql_from_response: re.findall(FENCE sql \s* (.*?) \s* FENCE,
\* response, re.DOTALL | re.IGNORECASE), first match, stripped.  A match
\* starts at the leftmost tagged fence that some fence follows; the first
\* \s* is greedy, the group is lazy and so ends before the white space in
\* front of the first fence at or after the group's start.
extract_sql_from_response(response) ==
    LET n == Len(response)
        closes(i) == {t \in (i + 6)..n : SubAt(response, FENCE, t)}
        starts == {i \in 1..n : OpenFenceAt(response, i) /\ closes(i) # {}}
    IN  IF starts = {} THEN None
        ELSE LET i == CHOOSE a \in starts : \A b \in starts : a <= b
                 p == RunEnd(response, i + 6, TRUE)
                 t == CHOOSE a \in closes(i) : \A b \in closes(i) : a <= b
             IN  Some(strip(SubSeq(response, p, t - 1)))

\* sanitize_sql, lines 45-50: strip, newline runs to one space, the trailing
\* semicolons removed, white-space runs to one space
normalize_sql(sql) ==
    SubRuns(SubTrailingSemicolons(SubRuns(strip(sql), {"\n"}, " ")), SpaceChars, " ")

\* a faulty starts_with_select: SELECT is looked for anywhere, not at the start
starts_with_select_anywhere(sql_clean) == Contains(upper(sql_clean), KW_SELECT)

\* sanitize_sql, line 53
starts_with_select(sql_clean) == startswith(strip(upper(sql_clean)), KW_SELECT)

\* a faulty forbidden_keywords: DROP is missing from the list
forbidden_keywords_without_drop == <<
        <<"I","N","S","E","R","T">>,
        <<"U","P","D","A","T","E">>,
        <<"D","E","L","E","T","E">>,
        <<"A","L","T","E","R">>,
        <<"C","R","E","A","T","E">>,
        <<"A","T","T","A","C","H">>,
        <<"C","O","P","Y">>,
        <<"E","X","P","O","R","T">>,
        <<"I","M","P","O","R","T">>,
        <<"P","R","A","G","M","A">>,
        <<"C","A","L","L">>,
        <<"L","O","A","D">>,
        <<"S","E","T">>,
        <<"R","E","S","E","T">>,
        <<"E","X","P","L","A","I","N">>,
        <<"D","E","S","C","R","I","B","E">>,
        <<"E","X","E","C">> >>

\* sanitize_sql, lines 57-61
forbidden_keywords == <<
        <<"I","N","S","E","R","T">>,
        <<"U","P","D","A","T","E">>,
        <<"D","E","L","E","T","E">>,
        <<"D","R","O","P">>,
        <<"A","L","T","E","R">>,
        <<"C","R","E","A","T","E">>,
        <<"A","T","T","A","C","H">>,
        <<"C","O","P","Y">>,
        <<"E","X","P","O","R","T">>,
        <<"I","M","P","O","R","T">>,
        <<"P","R","A","G","M","A">>,
        <<"C","A","L","L">>,
        <<"L","O","A","D">>,
        <<"S","E","T">>,
        <<"R","E","S","E","T">>,
        <<"E","X","P","L","A","I","N">>,
        <<"D","E","S","C","R","I","B","E">>,
        <<"E","X","E","C">> >>

\* the tables of a findall that differ from 'SALES', in match order
Disallowed(tables) == SelectSeq(tables, LAMBDA t : upper(t) # ALLOWED_TABLE)

\* sanitize_sql
sanitize_sql(sql) ==
    IF sql = <<>> THEN Raise("EmptyQuery", <<>>)
    ELSE
    LET sql_clean == normalize_sql(sql)
        sql_upper == upper(sql_clean)
        hits == {k \in DOMAIN forbidden_keywords : SearchWord(sql_upper, forbidden_keywords[k])}
        from_bad == Disallowed(FindAllTables(sql_upper, KW_FROM, TRUE, 1))
        join_bad == Disallowed(FindAllTables(sql_upper, KW_JOIN, FALSE, 1))
    IN  IF ~starts_with_select(sql_clean) THEN Raise("NotASelect", <<>>)
        ELSE IF hits # {}
             THEN Raise("ForbiddenKeyword",
                        forbidden_keywords[CHOOSE k \in hits : \A j \in hits : k <= j])
        ELSE IF Contains(sql_clean, <<";">>) THEN Raise("MultipleStatements", <<>>)
        ELSE IF Contains(sql_clean, <<"-","-">>) \/ Contains(sql_clean, <<"/","*">>)
             THEN Raise("CommentInjection", <<>>)
        ELSE IF from_bad # <<>> THEN Raise("DisallowedTable", from_bad[1])
        ELSE IF SearchWord(sql_upper, KW_JOIN) /\ join_bad # <<>>
             THEN Raise("DisallowedJoin", join_bad[1])
        ELSE Ok(sql_clean)

\* validate_and_sanitize_sql
validate_and_sanitize_sql(response) ==
    LET sql == extract_sql_from_response(response)
    IN  IF ~sql.some \/ sql.val = <<>> THEN Raise("NoSqlBlockFound", <<>>)
        ELSE sanitize_sql(sql.val)

(***************************************************************************)
(* query_templates.py                                                      *)
(***************************************************************************)
\* get_fallback_templates: the four QueryTemplate objects, in list order
\* lines 24-38
TEMPLATE_1 == [
    name |-> <<"u6708","u6b21","u30ab","u30c6","u30b4","u30ea","u5225","u58f2","u4e0a">>,
    sql |-> <<
        "S","E","L","E","C","T"," ","\n"," "," "," "," ","d","a","t","e","_","t","r","u","n",
        "c","(","'","m","o","n","t","h","'",","," ","d","a","t","e",")"," ","A","S"," ","m","o",
        "n","t","h",",","\n"," "," "," "," ","c","a","t","e","g","o","r","y",",","\n"," "," ",
        " "," ","S","U","M","(","r","e","v","e","n","u","e",")"," ","A","S"," ","t","o","t","a",
        "l","_","r","e","v","e","n","u","e",",","\n"," "," "," "," ","S","U","M","(","u","n",
        "i","t","s",")"," ","A","S"," ","t","o","t","a","l","_","u","n","i","t","s","\n","F",
        "R","O","M"," ","s","a","l","e","s"," ","\n","G","R","O","U","P"," ","B","Y"," ","d",
        "a","t","e","_","t","r","u","n","c","(","'","m","o","n","t","h","'",","," ","d","a","t",
        "e",")",","," ","c","a","t","e","g","o","r","y","\n","O","R","D","E","R"," ","B","Y",
        " ","m","o","n","t","h",","," ","c","a","t","e","g","o","r","y" >>,
    keywords |-> <<
        <<"u6708">>,
        <<"u30ab","u30c6","u30b4","u30ea">>,
        <<"u6708","u6bce">>,
        <<"u6708","u5225">>,
        <<"c","a","t","e","g","o","r","y">>,
        <<"m","o","n","t","h">> >> ]

\* lines 40-54
TEMPLATE_2 == [
    name |-> <<"u30c1","u30e3","u30cd","u30eb","u5225","u58f2","u4e0a">>,
    sql |-> <<
        "S","E","L","E","C","T"," ","\n"," "," "," "," ","s","a","l","e","s","_","c","h","a",
        "n","n","e","l",",","\n"," "," "," "," ","S","U","M","(","r","e","v","e","n","u","e",
        ")"," ","A","S"," ","t","o","t","a","l","_","r","e","v","e","n","u","e",",","\n"," ",
        " "," "," ","S","U","M","(","u","n","i","t","s",")"," ","A","S"," ","t","o","t","a","l",
        "_","u","n","i","t","s",",","\n"," "," "," "," ","C","O","U","N","T","(","*",")"," ",
        "A","S"," ","t","r","a","n","s","a","c","t","i","o","n","_","c","o","u","n","t","\n",
        "F","R","O","M"," ","s","a","l","e","s"," ","\n","G","R","O","U","P"," ","B","Y"," ",
        "s","a","l","e","s","_","c","h","a","n","n","e","l","\n","O","R","D","E","R"," ","B",
        "Y"," ","t","o","t","a","l","_","r","e","v","e","n","u","e"," ","D","E","S","C" >>,
    keywords |-> <<
        <<"u30c1","u30e3","u30cd","u30eb">>,
        <<"u30c1","u30e3","u30f3","u30cd","u30eb">>,
        <<"c","h","a","n","n","e","l">>,
        <<"u8ca9","u58f2">>,
        <<"u7d4c","u8def">> >> ]

\* lines 56-70
TEMPLATE_3 == [
    name |-> <<"u5730","u57df","u5225","u58f2","u4e0a">>,
    sql |-> <<
        "S","E","L","E","C","T"," ","\n"," "," "," "," ","r","e","g","i","o","n",",","\n"," ",
        " "," "," ","S","U","M","(","r","e","v","e","n","u","e",")"," ","A","S"," ","t","o","t",
        "a","l","_","r","e","v","e","n","u","e",",","\n"," "," "," "," ","S","U","M","(","u",
        "n","i","t","s",")"," ","A","S"," ","t","o","t","a","l","_","u","n","i","t","s",",",
        "\n"," "," "," "," ","C","O","U","N","T","(","*",")"," ","A","S"," ","t","r","a","n",
        "s","a","c","t","i","o","n","_","c","o","u","n","t","\n","F","R","O","M"," ","s","a",
        "l","e","s"," ","\n","G","R","O","U","P"," ","B","Y"," ","r","e","g","i","o","n","\n",
        "O","R","D","E","R"," ","B","Y"," ","t","o","t","a","l","_","r","e","v","e","n","u","e",
        " ","D","E","S","C" >>,
    keywords |-> <<
        <<"u5730","u57df">>,
        <<"u5730","u65b9">>,
        <<"r","e","g","i","o","n">>,
        <<"u30a8","u30ea","u30a2">>,
        <<"u5834","u6240">> >> ]

\* lines 72-86
TEMPLATE_4 == [
    name |-> <<"u9867","u5ba2","u30bb","u30b0","u30e1","u30f3","u30c8","u5225","u58f2","u4e0a">>,
    sql |-> <<
        "S","E","L","E","C","T"," ","\n"," "," "," "," ","c","u","s","t","o","m","e","r","_",
        "s","e","g","m","e","n","t",",","\n"," "," "," "," ","S","U","M","(","r","e","v","e",
        "n","u","e",")"," ","A","S"," ","t","o","t","a","l","_","r","e","v","e","n","u","e",",",
        "\n"," "," "," "," ","S","U","M","(","u","n","i","t","s",")"," ","A","S"," ","t","o",
        "t","a","l","_","u","n","i","t","s",",","\n"," "," "," "," ","C","O","U","N","T","(",
        "*",")"," ","A","S"," ","t","r","a","n","s","a","c","t","i","o","n","_","c","o","u","n",
        "t","\n","F","R","O","M"," ","s","a","l","e","s"," ","\n","G","R","O","U","P"," ","B",
        "Y"," ","c","u","s","t","o","m","e","r","_","s","e","g","m","e","n","t","\n","O","R",
        "D","E","R"," ","B","Y"," ","t","o","t","a","l","_","r","e","v","e","n","u","e"," ","D",
        "E","S","C" >>,
    keywords |-> <<
        <<"u9867","u5ba2">>,
        <<"u30bb","u30b0","u30e1","u30f3","u30c8">>,
        <<"s","e","g","m","e","n","t">>,
        <<"c","u","s","t","o","m","e","r">>,
        <<"u30af","u30e9","u30a4","u30a2","u30f3","u30c8">> >> ]

get_fallback_templates == <<TEMPLATE_1, TEMPLATE_2, TEMPLATE_3, TEMPLATE_4>>

\* a faulty get_default_query: the default query reads another table
get_default_query_other_table ==
    <<"S","E","L","E","C","T"," ","C","O","U","N","T","(","*",")"," ",
      "F","R","O","M"," ","s","a","l","e","s","_","d","a","t","a">>

\* get_default_query
get_default_query ==
    <<
    "S","E","L","E","C","T"," ","\n"," "," "," "," ","S","U","M","(","r","e","v","e","n","u","e",
    ")"," ","A","S"," ","t","o","t","a","l","_","r","e","v","e","n","u","e",",","\n"," "," ",
    " "," ","S","U","M","(","u","n","i","t","s",")"," ","A","S"," ","t","o","t","a","l","_",
    "u","n","i","t","s",",","\n"," "," "," "," ","C","O","U","N","T","(","*",")"," ","A","S",
    " ","t","o","t","a","l","_","t","r","a","n","s","a","c","t","i","o","n","s","\n","F","R",
    "O","M"," ","s","a","l","e","s" >>

\* the name find_best_template returns with the default query (line 140)
DEFAULT_NAME == <<"u30c7","u30d5","u30a9","u30eb","u30c8","uff08","u7dcf","u58f2","u4e0a","uff09">>

\* find_best_template, line 131: a keyword longer than this scores twice
BONUS_LENGTH == 3

\* a faulty keyword_in: the operands of "in" are swapped
keyword_in_swapped(keyword, user_query_lower) == Contains(lower(keyword), user_query_lower)

\* find_best_template, lines 126 and 131: keyword.lower() in user_query_lower
keyword_in(keyword, user_query_lower) == Contains(user_query_lower, lower(keyword))

\* find_best_template, lines 125-127 (bonus FALSE) and 130-132 (bonus TRUE):
\* one loop over the keywords from the k-th on, adding to score
RECURSIVE count_keywords(_, _, _, _, _)
count_keywords(keywords, user_query_lower, k, score, bonus) ==
    IF k > Len(keywords) THEN score
    ELSE IF /\ bonus => Len(keywords[k]) > BONUS_LENGTH
            /\ keyword_in(keywords[k], user_query_lower)
         THEN count_keywords(keywords, user_query_lower, k + 1, score + 1, bonus)
         ELSE count_keywords(keywords, user_query_lower, k + 1, score, bonus)

\* a faulty template_score: the second loop is left out
template_score_no_bonus(template, user_query_lower) ==
    count_keywords(template.keywords, user_query_lower, 1, 0, FALSE)

\* find_best_template, lines 124-132: the score of one template
template_score(template, user_query_lower) ==
    count_keywords(template.keywords, user_query_lower, 1,
                   count_keywords(template.keywords, user_query_lower, 1, 0, FALSE), TRUE)

\* a faulty loop over the templates: an equal score replaces the best so far
RECURSIVE best_template_from_last(_, _, _, _, _)
best_template_from_last(templates, user_query_lower, i, best_template, max_score) ==
    IF i > Len(templates) THEN <<best_template, max_score>>
    ELSE LET score == template_score(templates[i], user_query_lower)
         IN  IF score >= max_score
             THEN best_template_from_last(templates, user_query_lower, i + 1, i, score)
             ELSE best_template_from_last(templates, user_query_lower, i + 1, best_template, max_score)

\* find_best_template, lines 119-136: the loop over the templates from the
\* i-th on, with best_template (0 for None) and max_score so far
RECURSIVE best_template_from(_, _, _, _, _)
best_template_from(templates, user_query_lower, i, best_template, max_score) ==
    IF i > Len(templates) THEN <<best_template, max_score>>
    ELSE LET score == template_score(templates[i], user_query_lower)
         IN  IF score > max_score
             THEN best_template_from(templates, user_query_lower, i + 1, i, score)
             ELSE best_template_from(templates, user_query_lower, i + 1, best_template, max_score)

\* find_best_template: the pair (sql, template name)
find_best_template(text) ==
    LET templates == get_fallback_templates
        user_query_lower == lower(text)
        best == best_template_from(templates, user_query_lower, 1, 0, 0)
    IN  IF best[1] = 0 \/ best[2] = 0
        THEN <<get_default_query, DEFAULT_NAME>>
        ELSE <<templates[best[1]].sql, templates[best[1]].name>>

(***************************************************************************)
(* The values of the variables before a call, and of a component that a    *)
(* specification leaves alone.                                             *)
(***************************************************************************)
NotCalled == Raise("NotCalled", <<>>)
NotResolved == [sql |-> <<>>, name |-> None]
EmptyFrame == [rows |-> 0]
NotReturned == [done |-> FALSE, executed_sql |-> None, result_df |-> EmptyFrame,
                is_fallback |-> FALSE, template_name |-> None]
NoArgs == [llm_client |-> FALSE, user_query |-> <<>>, sql |-> None, result_df |-> EmptyFrame,
           is_fallback |-> FALSE, template_name |-> None]
NoSummary == [by |-> "none", rows |-> 0, text |-> "", note |-> None]
NoContent == [what |-> "none", summary |-> NoSummary]

GuardIdle ==
    gpc = "g_idle" /\ call = "none" /\ input = <<>> /\ guard = NotCalled /\ again = NotCalled

ResolverIdle ==
    /\ rpc = "r_idle" /\ query = <<>> /\ resolved = NotResolved
    /\ resolved_again = NotResolved /\ checked = NotCalled

PipelineIdle ==
    /\ pc = "idle" /\ sales_data = TRUE /\ llm_client = TRUE
    /\ user_query = <<>> /\ llm_response = <<>>
    /\ validated = NotCalled /\ found = NotResolved
    /\ executed_sql = None /\ result_df = EmptyFrame
    /\ is_fallback = FALSE /\ template_name = None
    /\ executed = <<>> /\ results = <<>> /\ calls = <<>>
    /\ shown = <<>> /\ returned = NotReturned /\ response_content = NoContent

NarrationIdle ==
    npc = "n_idle" /\ nargs = NoArgs /\ summary = NoSummary

\* a connection on which nothing was executed yet
NoResult == [owner |-> 0, open |-> FALSE, rows |-> 0]

ConcurrencyIdle ==
    runs = <<>> /\ conn = NoResult

(***************************************************************************)
(* Callers of the Guard.  validate_and_sanitize_sql is called with a model *)
(* response (chatbot_app.py:96); sanitize_sql is also an entry point of    *)
(* its own (is_sql_safe, sql_guard.py:125).  The strings passed are the    *)
(* concatenations of a few fragments, bare or inside a fence.              *)
(***************************************************************************)
MaxParts == 3      \* fragments of a string passed bare
MaxBody == 2       \* fragments of a string passed inside a fence

Parts == <<
    <<"S","E","L","E","C","T"," ","*"," ","F","R","O","M"," ","s","a","l","e","s">>,
    <<"s","e","l","e","c","t"," ","1">>,
    <<";">>,
    <<" ">>,
    <<"\n">>,
    <<";"," ","D","R","O","P"," ","T","A","B","L","E"," ","s","a","l","e","s">>,
    <<","," ","u","s","e","r","s">>,
    <<" ","J","O","I","N"," ","u","s","e","r","s">>,
    <<"-","-">>,
    <<"/","*">>,
    <<"x">> >>

Opens == {
    <<"u0060","u0060","u0060","s","q","l","\n">>,
    <<"u0060","u0060","u0060","S","Q","L">>,
    <<"u0060","u0060","u0060","\n">> }

Closes == { <<>>, <<"u0060","u0060","u0060">>, <<"\n","u0060","u0060","u0060">> }

\* the concatenations of at most n fragments
Bodies(n) ==
    UNION { { Flatten([k \in 1..m |-> Parts[f[k]]], 1, m) : f \in [1..m -> DOMAIN Parts] }
            : m \in 0..n }

GuardInputs ==
    Bodies(MaxParts) \cup { o \o b \o c : o \in Opens, b \in Bodies(MaxBody), c \in Closes }

GuardInit ==
    /\ gpc = "g_ready"
    /\ call = "none"
    /\ input \in GuardInputs
    /\ guard = NotCalled
    /\ again = NotCalled
    /\ ResolverIdle
    /\ PipelineIdle
    /\ NarrationIdle
    /\ ConcurrencyIdle

\* chatbot_app.py:96
CallValidate ==
    /\ gpc = "g_ready"
    /\ call' = "validate_and_sanitize_sql"
    /\ guard' = validate_and_sanitize_sql(input)
    /\ gpc' = "g_done"
    /\ UNCHANGED <<input, again, rvars, pvars, nvars, cvars>>

\* sql_guard.py:125
CallSanitize ==
    /\ gpc = "g_ready"
    /\ call' = "sanitize_sql"
    /\ guard' = sanitize_sql(input)
    /\ gpc' = "g_done"
    /\ UNCHANGED <<input, again, rvars, pvars, nvars, cvars>>

\* the Guard's output is validated once more
Revalidate ==
    /\ gpc = "g_done"
    /\ guard.err = "None"
    /\ again' = sanitize_sql(guard.sql)
    /\ gpc' = "g_again"
    /\ UNCHANGED <<call, input, guard, rvars, pvars, nvars, cvars>>

GuardNext == CallValidate \/ CallSanitize \/ Revalidate

SpecGuard == GuardInit /\ [][GuardNext]_vars

(***************************************************************************)
(* Properties of the Guard (checked under SpecGuard).                      *)
(***************************************************************************)
\* the Guard has been called and had a candidate to check: the string passed
\* to sanitize_sql, or the block extracted from the response
HasCandidate ==
    /\ gpc # "g_ready"
    /\ call = "sanitize_sql" \/ extract_sql_from_response(input).some
Candidate ==
    IF call = "sanitize_sql" THEN input ELSE extract_sql_from_response(input).val

\* the text starts with SELECT, in any case
StartsWithSelectAnyCase(s) ==
    Len(s) >= 6 /\ lower(SubSeq(s, 1, 6)) = <<"s","e","l","e","c","t">>

\* a fenced block tagged sql: a fence directly followed by the letters s, q, l
\* in any case, and a closing fence after the tag
HasFencedSqlBlock(r) ==
    \E i \in 1..Len(r), t \in 1..Len(r) :
        /\ SubAt(r, FENCE, i)
        /\ i + 5 <= Len(r)
        /\ r[i + 3] \in {"s", "S"} /\ r[i + 4] \in {"q", "Q"} /\ r[i + 5] \in {"l", "L"}
        /\ t >= i + 6
        /\ SubAt(r, FENCE, t)

\* the tables a query names in its FROM and JOIN clauses: the word after the
\* keyword FROM or JOIN, and the next item of a comma-separated FROM list
TablesNamed(s) ==
    LET u == upper(s)
        after(kw, i) == LET w == RunEnd(u, i + Len(kw), TRUE)
                        IN  SubSeq(u, w, RunEnd(u, w, FALSE) - 1)
        \* position of the comma that follows the first table of the FROM at i, or 0
        comma(i) == LET w == RunEnd(u, i + Len(KW_FROM), TRUE)
                        c == RunEnd(u, RunEnd(u, w, FALSE), TRUE)
                    IN  IF c <= Len(u) /\ u[c] = "," THEN c ELSE 0
        second(i) == LET w == RunEnd(u, comma(i) + 1, TRUE)
                     IN  SubSeq(u, w, RunEnd(u, w, FALSE) - 1)
    IN  { after(KW_FROM, i) : i \in {j \in 1..Len(u) : KwTableAt(u, KW_FROM, TRUE, j)} }
        \cup { after(KW_JOIN, i) : i \in {j \in 1..Len(u) : KwTableAt(u, KW_JOIN, TRUE, j)} }
        \cup { second(i) : i \in {j \in 1..Len(u) :
                                    KwTableAt(u, KW_FROM, TRUE, j) /\ comma(j) > 0
                                    /\ second(j) # <<>>} }

\* C2 (as claimed): every string the Guard returns contains no ';', no '--',
\* no '/*', and names no table other than sales in a FROM or JOIN clause.
C2_GuardOutputClean ==
    (gpc # "g_ready" /\ guard.err = "None") =>
        /\ ~Contains(guard.sql, <<";">>)
        /\ ~Contains(guard.sql, <<"-","-">>)
        /\ ~Contains(guard.sql, <<"/","*">>)
        /\ \A t \in TablesNamed(guard.sql) : t = ALLOWED_TABLE

\* the checks of the Guard in the order the claim gives them, and the checks
\* the passed string violates
CheckOrder == <<"NoSqlBlockFound", "EmptyQuery", "NotASelect", "ForbiddenKeyword",
                "MultipleStatements", "CommentInjection", "DisallowedTable",
                "DisallowedJoin">>
Violated ==
    IF call = "validate_and_sanitize_sql" /\ ~HasFencedSqlBlock(input)
    THEN {"NoSqlBlockFound"}
    ELSE LET c == normalize_sql(Candidate)
             u == upper(c)
         IN  {e \in {"EmptyQuery"} : c = <<>>}
             \cup {e \in {"NotASelect"} : ~StartsWithSelectAnyCase(c)}
             \cup {e \in {"ForbiddenKeyword"} :
                     \E k \in DOMAIN forbidden_keywords : SearchWord(u, forbidden_keywords[k])}
             \cup {e \in {"MultipleStatements"} : Contains(c, <<";">>)}
             \cup {e \in {"CommentInjection"} :
                     Contains(c, <<"-","-">>) \/ Contains(c, <<"/","*">>)}
             \cup {e \in {"DisallowedTable"} :
                     \E i \in 1..Len(u) : KwTableAt(u, KW_FROM, TRUE, i)
                        /\ FindAllTables(u, KW_FROM, TRUE, i)[1] # ALLOWED_TABLE}
             \cup {e \in {"DisallowedJoin"} :
                     \E i \in 1..Len(u) : KwTableAt(u, KW_JOIN, TRUE, i)
                        /\ FindAllTables(u, KW_JOIN, TRUE, i)[1] # ALLOWED_TABLE}
EarliestViolated ==
    CheckOrder[CHOOSE k \in DOMAIN CheckOrder :
                 /\ CheckOrder[k] \in Violated
                 /\ \A j \in 1..(k - 1) : CheckOrder[j] \notin Violated]

\* C3 (as claimed): for an input that violates several checks, the error
\* reported is the one of the earliest violated check in the order extraction,
\* empty, SELECT prefix, forbidden vocabulary, single statement, comments,
\* FROM allowlist, JOIN allowlist.
C3_EarliestCheckReported ==
    (gpc # "g_ready" /\ Cardinality(Violated) >= 2) => guard.err = EarliestViolated

\* C4 (as claimed): validating a string the Guard returned succeeds and
\* returns exactly that string.
C4_Idempotent ==
    gpc = "g_again" => again = guard

\* the candidate of the scenario: SELECT * FROM sales; DROP TABLE sales
Q_DropAfterSemicolon ==
    <<"S","E","L","E","C","T"," ","*"," ","F","R","O","M"," ","s","a","l","e","s",
      ";"," ","D","R","O","P"," ","T","A","B","L","E"," ","s","a","l","e","s">>

\* C5 (as claimed): validating "SELECT * FROM sales; DROP TABLE sales" fails
\* with MultipleStatements.
C5_ReportsMultipleStatements ==
    (HasCandidate /\ Candidate = Q_DropAfterSemicolon) => guard.err = "MultipleStatements"

\* C5 (amended): validating "SELECT * FROM sales; DROP TABLE sales" fails with
\* ForbiddenKeyword, naming DROP: the forbidden vocabulary is checked before
\* the interior semicolon.
C5_ReportsForbiddenDrop ==
    (HasCandidate /\ Candidate = Q_DropAfterSemicolon) =>
        guard = Raise("ForbiddenKeyword", <<"D","R","O","P">>)

\* C5 witness: the scenario's candidate has been validated, bare and inside a fence
C5_Witness ==
    /\ HasCandidate /\ Candidate = Q_DropAfterSemicolon
    /\ call = "validate_and_sanitize_sql"
    /\ guard.err = "ForbiddenKeyword"

\* C6: for every response without a fenced block tagged sql,
\* validate_and_sanitize_sql raises NoSqlBlockFound and returns no query.
C6_NoBlockNoQuery ==
    (gpc # "g_ready" /\ call = "validate_and_sanitize_sql" /\ ~HasFencedSqlBlock(input))
        => guard = Raise("NoSqlBlockFound", <<>>)

\* C6 witness: a response that holds a fence, but none tagged sql, was refused
C6_Witness ==
    /\ gpc # "g_ready" /\ call = "validate_and_sanitize_sql"
    /\ Contains(input, FENCE) /\ Contains(input, KW_SELECT)
    /\ ~HasFencedSqlBlock(input)
    /\ guard.err = "NoSqlBlockFound"

\* C7 (as claimed): whenever the candidate is empty after normalization,
\* validation fails with EmptyQuery and with no other violation.
C7_EmptyCandidateIsEmptyQuery ==
    (HasCandidate /\ normalize_sql(Candidate) = <<>>) => guard.err = "EmptyQuery"

\* C8 (as claimed): every string that after normalization does not start with
\* SELECT, in any case, fails with NotASelect.
C8_NonSelectIsNotASelect ==
    (HasCandidate /\ ~StartsWithSelectAnyCase(normalize_sql(Candidate)))
        => guard.err = "NotASelect"

\* C8 (amended): every string whose normalized form is not empty and does not
\* start with SELECT, in any case, fails with NotASelect.
C8_NonEmptyNonSelectIsNotASelect ==
    (/\ HasCandidate
     /\ normalize_sql(Candidate) # <<>>
     /\ ~StartsWithSelectAnyCase(normalize_sql(Candidate)))
        => guard = Raise("NotASelect", <<>>)

\* C8 witness: a non-empty candidate that holds SELECT, but not at its start,
\* was refused as not a SELECT
C8_Witness ==
    /\ HasCandidate
    /\ normalize_sql(Candidate) # <<>>
    /\ Contains(upper(Candidate), KW_SELECT)
    /\ ~StartsWithSelectAnyCase(normalize_sql(Candidate))
    /\ guard.err = "NotASelect"

(***************************************************************************)
(* Callers of the Template Resolver (chatbot_app.py:115).  The user texts  *)
(* are the concatenations of a few fragments: keywords of the templates,   *)
(* some in another case, and text no template knows.                       *)
(***************************************************************************)
MaxWords == 3      \* fragments of a user text

QueryParts == <<
    <<"u6708">>,                              \* month (template 1)
    <<"u30ab","u30c6","u30b4","u30ea">>,      \* category (template 1)
    <<"C","h","a","n","n","e","l">>,          \* template 2
    <<"u8ca9","u58f2">>,                      \* selling (template 2)
    <<"u5730","u57df">>,                      \* region (template 3)
    <<"u9867","u5ba2">>,                      \* customer (template 4)
    <<"u58f2","u4e0a">> >>                    \* sales, no keyword

Queries(n) ==
    UNION { { Flatten([k \in 1..m |-> QueryParts[f[k]]], 1, m) : f \in [1..m -> DOMAIN QueryParts] }
            : m \in 0..n }

ResolverInit ==
    /\ rpc = "r_ready"
    /\ query \in Queries(MaxWords)
    /\ resolved = NotResolved
    /\ resolved_again = NotResolved
    /\ checked = NotCalled
    /\ GuardIdle
    /\ PipelineIdle
    /\ NarrationIdle
    /\ ConcurrencyIdle

\* chatbot_app.py:115
CallResolve ==
    /\ rpc = "r_ready"
    /\ LET r == find_best_template(query)
       IN  resolved' = [sql |-> r[1], name |-> Some(r[2])]
    /\ rpc' = "r_done"
    /\ UNCHANGED <<query, resolved_again, checked, gvars, pvars, nvars, cvars>>

\* chatbot_app.py:115 once more: a later run passes the same text
ResolveAgain ==
    /\ rpc = "r_done"
    /\ LET r == find_best_template(query)
       IN  resolved_again' = [sql |-> r[1], name |-> Some(r[2])]
    /\ rpc' = "r_again"
    /\ UNCHANGED <<query, resolved, checked, gvars, pvars, nvars, cvars>>

\* the resolved sql is given to the Guard (sql_guard.py:125)
CheckResolved ==
    /\ rpc = "r_done"
    /\ checked' = sanitize_sql(resolved.sql)
    /\ rpc' = "r_checked"
    /\ UNCHANGED <<query, resolved, resolved_again, gvars, pvars, nvars, cvars>>

ResolverNext == CallResolve \/ ResolveAgain \/ CheckResolved

SpecResolver == ResolverInit /\ [][ResolverNext]_vars

(***************************************************************************)
(* Properties of the Template Resolver (checked under SpecResolver).       *)
(***************************************************************************)
\* the sql strings of the registry and the default query
RegistrySqls ==
    {get_fallback_templates[i].sql : i \in DOMAIN get_fallback_templates} \cup {get_default_query}

\* some keyword of some template occurs in the text, compared in lower case
SomeKeywordOccurs(text) ==
    \E i \in DOMAIN get_fallback_templates :
        \E k \in DOMAIN get_fallback_templates[i].keywords :
            Contains(lower(text), lower(get_fallback_templates[i].keywords[k]))

\* C9: the Template Resolver never fails: for every user text it returns a
\* sql string of the registry (or the default query), and sanitize_sql
\* accepts every string it returns.
C9_ResolverReturnsAcceptedSql ==
    /\ rpc \in {"r_done", "r_again", "r_checked"} => resolved.sql \in RegistrySqls
    /\ rpc = "r_checked" => checked.err = "None"

\* C9 witness: the last template of the registry was returned and accepted
C9_Witness ==
    /\ rpc = "r_checked"
    /\ resolved.sql = TEMPLATE_4.sql
    /\ checked.err = "None"

ClaimedScore(i, text) ==
    LET kws == get_fallback_templates[i].keywords
        occurring == {k \in DOMAIN kws : Contains(lower(text), lower(kws[k]))}
    IN  Cardinality(occurring) + Cardinality({k \in occurring : Len(kws[k]) > 3})

\* the greatest claimed score of a text over the registry
MaxClaimedScore(text) ==
    LET scores == {ClaimedScore(i, text) : i \in DOMAIN get_fallback_templates}
    IN  CHOOSE m \in scores : \A n \in scores : n <= m

\* the templates reaching the greatest claimed score
Winners(text) ==
    {i \in DOMAIN get_fallback_templates : ClaimedScore(i, text) = MaxClaimedScore(text)}

\* the pair find_best_template returns for template i
PairOf(i) ==
    [sql |-> get_fallback_templates[i].sql, name |-> Some(get_fallback_templates[i].name)]

\* C11: template resolution is deterministic and ties go to the earliest
\* template: a second call with the same text returns the same pair, and
\* when the greatest score is positive the pair returned is that of the
\* first template of the registry reaching it, also when later templates
\* reach it too.
C11_DeterministicEarliestWins ==
    /\ rpc = "r_again" => resolved_again = resolved
    /\ (rpc \in {"r_done", "r_again", "r_checked"} /\ MaxClaimedScore(query) > 0) =>
          LET first == CHOOSE i \in Winners(query) : \A j \in Winners(query) : i <= j
          IN  resolved = PairOf(first)

\* C11 witness: two templates tie at a positive score, the keyword of the
\* later one comes first in the text, and the earlier template was returned
\* by both calls
C11_Witness ==
    /\ rpc = "r_again"
    /\ MaxClaimedScore(query) > 0
    /\ Winners(query) = {3, 4}
    /\ SubAt(query, <<"u9867","u5ba2">>, 1)
    /\ resolved = PairOf(3) /\ resolved_again = resolved

\* C20: the score of each template is the number of its keywords occurring
\* in the lower-cased text plus the number of those occurring keywords
\* longer than three characters, and when the greatest score is positive a
\* template reaching it is returned.
C20_ScoreAndMaximum ==
    rpc \in {"r_done", "r_again", "r_checked"} =>
        /\ \A i \in DOMAIN get_fallback_templates :
              template_score(get_fallback_templates[i], lower(query)) = ClaimedScore(i, query)
        /\ MaxClaimedScore(query) > 0 => \E i \in Winners(query) : resolved = PairOf(i)

\* C20 witness: a template with one short keyword in the text lost to a
\* template with one long keyword in it (score 1 against score 2)
C20_Witness ==
    /\ rpc = "r_done"
    /\ ClaimedScore(1, query) = 1
    /\ ClaimedScore(2, query) = 2
    /\ MaxClaimedScore(query) = 2
    /\ resolved = PairOf(2)

(***************************************************************************)
(* chatbot_app.py: process_user_query, one run.  The Language Model        *)
(* Service and the Analytics Engine are outside the program: what they     *)
(* answer is chosen among the answers they can give.                       *)
(***************************************************************************)
MaxRows == 2       \* rows of a result of the Analytics Engine

\* the user texts of the runs
PipelineQueries == {
    <<>>,
    <<"u6708">>,
    <<"u58f2","u4e0a">>,
    <<"C","h","a","n","n","e","l"," ","u9867","u5ba2">>,
    <<"u5730","u57df","u5225","u306e","u58f2","u4e0a","u3092","u6559","u3048","u3066">> }

\* the answers of generate_sql in the runs
PipelineResponses == {
    \* a fenced SELECT on sales
    <<"u0060","u0060","u0060","s","q","l","\n","S","E","L","E","C","T"," ","*"," ",
      "F","R","O","M"," ","s","a","l","e","s","\n","u0060","u0060","u0060">>,
    \* a fenced SELECT followed by a DROP
    <<"u0060","u0060","u0060","s","q","l","\n","S","E","L","E","C","T"," ","*"," ",
      "F","R","O","M"," ","s","a","l","e","s",";"," ","D","R","O","P"," ","T","A","B","L","E",
      " ","s","a","l","e","s","\n","u0060","u0060","u0060">>,
    \* a SELECT without a fence
    <<"S","E","L","E","C","T"," ","*"," ","F","R","O","M"," ","s","a","l","e","s">>,
    \* a fenced semicolon
    <<"u0060","u0060","u0060","s","q","l","\n",";","\n","u0060","u0060","u0060">>,
    \* a fenced lower-case select with a space before its semicolon
    <<"u0060","u0060","u0060","S","Q","L"," ","s","e","l","e","c","t"," ","1"," ",";",
      "u0060","u0060","u0060">>,
    \* a fenced SELECT joining another table
    <<"u0060","u0060","u0060","s","q","l","\n","S","E","L","E","C","T"," ","*"," ",
      "F","R","O","M"," ","s","a","l","e","s"," ","J","O","I","N"," ","u","s","e","r","s",
      "\n","u0060","u0060","u0060">> }

\* the text returned in place of a query when no data is loaded (line 81)
NO_DATA_TEXT ==
    <<"u30c7","u30fc","u30bf","u304c","u8aad","u307f","u8fbc","u307e","u308c","u3066",
      "u3044","u307e","u305b","u3093","u3002">>

\* one st.warning / st.info / st.error call: its level, which message of the
\* source it is, and the text of the exception the message quotes
Message(level, what, detail) == [level |-> level, what |-> what, detail |-> detail]

\* the answers of generate_summary
SummaryTexts == {"summary_a", "summary_b"}

\* one outcome of db_conn.execute(sql).fetchdf(): a data frame or an exception
Fetched(n) == [raised |-> FALSE, rows |-> n]
EngineError == [raised |-> TRUE, rows |-> 0]

\* validate_and_sanitize_sql over the answers of generate_sql in the runs, and
\* find_best_template over their user texts, computed once
GuardAnswers == [r \in PipelineResponses |-> validate_and_sanitize_sql(r)] @@ <<>>
ResolverAnswers == [q \in PipelineQueries |-> find_best_template(q)] @@ <<>>

PipelineInit ==
    /\ pc = "start"
    /\ sales_data \in BOOLEAN
    /\ llm_client \in BOOLEAN
    /\ user_query \in PipelineQueries
    /\ llm_response = <<>>
    /\ validated = NotCalled /\ found = NotResolved
    /\ executed_sql = None /\ result_df = EmptyFrame
    /\ is_fallback = FALSE /\ template_name = None
    /\ executed = <<>> /\ results = <<>> /\ calls = <<>>
    /\ shown = <<>> /\ returned = NotReturned /\ response_content = NoContent
    /\ GuardIdle
    /\ ResolverIdle
    /\ NarrationIdle
    /\ ConcurrencyIdle

\* a faulty Start: the client is not tested before it is used
Start_without_client_test ==
    /\ pc = "start"
    /\ IF ~sales_data
       THEN /\ returned' = [done |-> TRUE, executed_sql |-> Some(NO_DATA_TEXT),
                            result_df |-> EmptyFrame, is_fallback |-> TRUE,
                            template_name |-> None]
            /\ pc' = "returned"
       ELSE /\ pc' = "generate"
            /\ UNCHANGED returned
    /\ UNCHANGED <<sales_data, llm_client, user_query, llm_response, validated, found,
                   executed_sql, result_df, is_fallback, template_name, executed, results,
                   calls, shown, response_content, gvars, rvars, nvars, cvars>>

\* lines 74-84 and 109-111: the locals are set; without data the call returns
\* at once; without a client the fallback is chosen
Start ==
    /\ pc = "start"
    /\ IF ~sales_data
       THEN /\ returned' = [done |-> TRUE, executed_sql |-> Some(NO_DATA_TEXT),
                            result_df |-> EmptyFrame, is_fallback |-> TRUE,
                            template_name |-> None]
            /\ pc' = "returned"
            /\ UNCHANGED <<is_fallback, shown>>
       ELSE IF llm_client
       THEN /\ pc' = "generate"
            /\ UNCHANGED <<is_fallback, shown, returned>>
       ELSE /\ shown' = Append(shown, Message("warning", "no_client", ""))
            /\ is_fallback' = TRUE
            /\ pc' = "fallback"
            /\ UNCHANGED returned
    /\ UNCHANGED <<sales_data, llm_client, user_query, llm_response, validated, found,
                   executed_sql, result_df, template_name, executed, results, calls,
                   response_content, gvars, rvars, nvars, cvars>>

\* lines 86-93: generate_sql answers
GenerateSql ==
    /\ pc = "generate"
    /\ calls' = Append(calls, "generate_sql")
    /\ \E r \in PipelineResponses : llm_response' = r
    /\ pc' = "validate"
    /\ UNCHANGED <<sales_data, llm_client, user_query, validated, found, executed_sql,
                   result_df, is_fallback, template_name, executed, results, shown,
                   returned, response_content, gvars, rvars, nvars, cvars>>

\* lines 86-93 and 105-108: generate_sql raises
GenerateSqlRaises ==
    /\ pc = "generate"
    /\ calls' = calls \o <<"generate_sql", "generate_sql raised">>
    /\ shown' = shown \o <<Message("warning", "generation_error", "exception"),
                           Message("info", "use_template", "")>>
    /\ is_fallback' = TRUE
    /\ pc' = "fallback"
    /\ UNCHANGED <<sales_data, llm_client, user_query, llm_response, validated, found,
                   executed_sql, result_df, template_name, executed, results, returned,
                   response_content, gvars, rvars, nvars, cvars>>

\* a faulty Validate: the exception of the Guard is not caught
Validate_uncaught ==
    /\ pc = "validate"
    /\ calls' = Append(calls, "validate_and_sanitize_sql")
    /\ validated' = GuardAnswers[llm_response]
    /\ IF validated'.err = "None"
       THEN /\ executed_sql' = Some(validated'.sql)
            /\ pc' = "execute"
       ELSE /\ pc' = "raised"
            /\ UNCHANGED executed_sql
    /\ UNCHANGED <<sales_data, llm_client, user_query, llm_response, found, result_df,
                   is_fallback, shown, template_name, executed, results, returned,
                   response_content, gvars, rvars, nvars, cvars>>

\* lines 96 and 101-104: the Guard returns the query to execute or raises
Validate ==
    /\ pc = "validate"
    /\ calls' = Append(calls, "validate_and_sanitize_sql")
    /\ validated' = GuardAnswers[llm_response]
    /\ IF validated'.err = "None"
       THEN /\ executed_sql' = Some(validated'.sql)
            /\ pc' = "execute"
            /\ UNCHANGED <<is_fallback, shown>>
       ELSE /\ shown' = shown \o <<Message("warning", "security", validated'.err),
                                   Message("info", "use_template", "")>>
            /\ is_fallback' = TRUE
            /\ pc' = "fallback"
            /\ UNCHANGED executed_sql
    /\ UNCHANGED <<sales_data, llm_client, user_query, llm_response, found, result_df,
                   template_name, executed, results, returned, response_content,
                   gvars, rvars, nvars, cvars>>

\* a faulty Execute: the model's answer is executed as it came
Execute_raw_response ==
    /\ pc = "execute"
    /\ calls' = Append(calls, "execute")
    /\ executed' = Append(executed, llm_response)
    /\ \E n \in 0..MaxRows : result_df' = [rows |-> n] /\ results' = Append(results, Fetched(n))
    /\ pc' = "fallback"
    /\ UNCHANGED <<sales_data, llm_client, user_query, llm_response, validated, found,
                   executed_sql, is_fallback, template_name, shown, returned,
                   response_content, gvars, rvars, nvars, cvars>>

\* line 99 with execute_sql_query, lines 65-67: the engine returns a data frame
Execute ==
    /\ pc = "execute"
    /\ calls' = Append(calls, "execute")
    /\ executed' = Append(executed, executed_sql.val)
    /\ \E n \in 0..MaxRows : result_df' = [rows |-> n] /\ results' = Append(results, Fetched(n))
    /\ pc' = "fallback"
    /\ UNCHANGED <<sales_data, llm_client, user_query, llm_response, validated, found,
                   executed_sql, is_fallback, template_name, shown, returned,
                   response_content, gvars, rvars, nvars, cvars>>

\* line 99 with execute_sql_query, lines 68-70: the engine raises; the error is
\* shown and an empty data frame returned
ExecuteRaises ==
    /\ pc = "execute"
    /\ calls' = Append(calls, "execute")
    /\ executed' = Append(executed, executed_sql.val)
    /\ results' = Append(results, EngineError)
    /\ shown' = Append(shown, Message("error", "engine_error", "exception"))
    /\ result_df' = EmptyFrame
    /\ pc' = "fallback"
    /\ UNCHANGED <<sales_data, llm_client, user_query, llm_response, validated, found,
                   executed_sql, is_fallback, template_name, returned, response_content,
                   gvars, rvars, nvars, cvars>>

\* a faulty ResolveFallback: an empty result of the model's query is kept
ResolveFallback_keeps_empty ==
    /\ pc = "fallback"
    /\ IF is_fallback
       THEN /\ LET r == ResolverAnswers[user_query]
               IN  /\ found' = [sql |-> r[1], name |-> Some(r[2])]
                   /\ executed_sql' = Some(r[1])
                   /\ template_name' = Some(r[2])
            /\ calls' = Append(calls, "find_best_template")
            /\ pc' = "execute_fallback"
       ELSE /\ pc' = "return"
            /\ UNCHANGED <<found, executed_sql, template_name, calls>>
    /\ UNCHANGED <<sales_data, llm_client, user_query, llm_response, validated, result_df,
                   is_fallback, executed, results, shown, returned, response_content,
                   gvars, rvars, nvars, cvars>>

\* lines 114-115: the fallback is taken, and find_best_template called, or not
ResolveFallback ==
    /\ pc = "fallback"
    /\ IF is_fallback \/ result_df.rows = 0
       THEN /\ LET r == ResolverAnswers[user_query]
               IN  /\ found' = [sql |-> r[1], name |-> Some(r[2])]
                   /\ executed_sql' = Some(r[1])
                   /\ template_name' = Some(r[2])
            /\ calls' = Append(calls, "find_best_template")
            /\ pc' = "execute_fallback"
       ELSE /\ pc' = "return"
            /\ UNCHANGED <<found, executed_sql, template_name, calls>>
    /\ UNCHANGED <<sales_data, llm_client, user_query, llm_response, validated, result_df,
                   is_fallback, executed, results, shown, returned, response_content,
                   gvars, rvars, nvars, cvars>>

\* a faulty ExecuteFallback: the template's query is sent to the engine twice
ExecuteFallback_twice ==
    /\ pc = "execute_fallback"
    /\ calls' = calls \o <<"execute", "execute">>
    /\ executed' = executed \o <<executed_sql.val, executed_sql.val>>
    /\ \E n \in 0..MaxRows :
          result_df' = [rows |-> n] /\ results' = results \o <<Fetched(n), Fetched(n)>>
    /\ is_fallback' = TRUE
    /\ pc' = "return"
    /\ UNCHANGED <<sales_data, llm_client, user_query, llm_response, validated, found,
                   executed_sql, template_name, shown, returned, response_content,
                   gvars, rvars, nvars, cvars>>

\* a faulty ExecuteFallback: the flag of line 117 is not set
ExecuteFallback_unflagged ==
    /\ pc = "execute_fallback"
    /\ calls' = Append(calls, "execute")
    /\ executed' = Append(executed, executed_sql.val)
    /\ \E n \in 0..MaxRows : result_df' = [rows |-> n] /\ results' = Append(results, Fetched(n))
    /\ pc' = "return"
    /\ UNCHANGED <<sales_data, llm_client, user_query, llm_response, validated, found,
                   executed_sql, is_fallback, template_name, shown, returned,
                   response_content, gvars, rvars, nvars, cvars>>

\* lines 116-117 with execute_sql_query, lines 65-67
ExecuteFallback ==
    /\ pc = "execute_fallback"
    /\ calls' = Append(calls, "execute")
    /\ executed' = Append(executed, executed_sql.val)
    /\ \E n \in 0..MaxRows : result_df' = [rows |-> n] /\ results' = Append(results, Fetched(n))
    /\ is_fallback' = TRUE
    /\ pc' = "return"
    /\ UNCHANGED <<sales_data, llm_client, user_query, llm_response, validated, found,
                   executed_sql, template_name, shown, returned, response_content,
                   gvars, rvars, nvars, cvars>>

\* lines 116-117 with execute_sql_query, lines 68-70
ExecuteFallbackRaises ==
    /\ pc = "execute_fallback"
    /\ calls' = Append(calls, "execute")
    /\ executed' = Append(executed, executed_sql.val)
    /\ results' = Append(results, EngineError)
    /\ shown' = Append(shown, Message("error", "engine_error", "exception"))
    /\ result_df' = EmptyFrame
    /\ is_fallback' = TRUE
    /\ pc' = "return"
    /\ UNCHANGED <<sales_data, llm_client, user_query, llm_response, validated, found,
                   executed_sql, template_name, returned, response_content,
                   gvars, rvars, nvars, cvars>>

\* line 119
Return ==
    /\ pc = "return"
    /\ returned' = [done |-> TRUE, executed_sql |-> executed_sql, result_df |-> result_df,
                    is_fallback |-> is_fallback, template_name |-> template_name]
    /\ pc' = "returned"
    /\ UNCHANGED <<sales_data, llm_client, user_query, llm_response, validated, found,
                   executed_sql, result_df, is_fallback, template_name, executed, results,
                   calls, shown, response_content, gvars, rvars, nvars, cvars>>

\* a str or None taken as a condition (lines 134 and 148, narration.py:110)
Truthy(s) == s.some /\ s.val # <<>>

\* chat handler, lines 131-155: the branch on the returned tuple; with rows
\* the result is displayed and generate_analysis_summary called
Handle ==
    /\ pc = "returned"
    /\ IF Truthy(returned.executed_sql) /\ returned.result_df.rows > 0
       THEN /\ nargs' = [llm_client |-> llm_client, user_query |-> user_query,
                         sql |-> returned.executed_sql, result_df |-> returned.result_df,
                         is_fallback |-> returned.is_fallback,
                         template_name |-> returned.template_name]
            /\ npc' = "n_ready"
            /\ pc' = "summarize"
            /\ UNCHANGED <<shown, response_content>>
       ELSE IF Truthy(returned.executed_sql)
       THEN /\ shown' = Append(shown, Message("warning", "no_data_found", ""))
            /\ response_content' = [what |-> "no_data_found", summary |-> NoSummary]
            /\ pc' = "done"
            /\ UNCHANGED <<npc, nargs>>
       ELSE /\ shown' = Append(shown, Message("error", "analysis_error", ""))
            /\ response_content' = [what |-> "analysis_error", summary |-> NoSummary]
            /\ pc' = "done"
            /\ UNCHANGED <<npc, nargs>>
    /\ UNCHANGED <<sales_data, llm_client, user_query, llm_response, validated, found,
                   executed_sql, result_df, is_fallback, template_name, executed, results,
                   calls, returned, summary, gvars, rvars, cvars>>

\* chat handler, lines 143-146 and 158: the summary is shown and kept
ShowSummary ==
    /\ pc = "summarize"
    /\ npc = "n_done"
    /\ response_content' = [what |-> "completed", summary |-> summary]
    /\ pc' = "done"
    /\ UNCHANGED <<sales_data, llm_client, user_query, llm_response, validated, found,
                   executed_sql, result_df, is_fallback, template_name, executed, results,
                   calls, shown, returned, gvars, rvars, nvars, cvars>>

(***************************************************************************)
(* narration.py: generate_analysis_summary.  A summary is modelled by who  *)
(* wrote it, the rows it counts, the text of the Language Model Service    *)
(* and the template the note at its end names.                             *)
(***************************************************************************)
\* create_fallback_summary, lines 82-113
create_fallback_summary(text, sql, df, name) ==
    IF df.rows = 0
    THEN [by |-> "create_fallback_summary", rows |-> 0, text |-> "", note |-> None]
    ELSE [by |-> "create_fallback_summary", rows |-> df.rows, text |-> "",
          note |-> IF Truthy(name) THEN name ELSE None]

\* a faulty generate_analysis_summary: the Language Model Service is asked
\* whenever it is there
GenerateAnalysisSummary_always_llm ==
    /\ npc = "n_ready"
    /\ IF nargs.llm_client
       THEN /\ npc' = "n_llm"
            /\ UNCHANGED summary
       ELSE /\ summary' = create_fallback_summary(nargs.user_query, nargs.sql,
                                                  nargs.result_df, nargs.template_name)
            /\ npc' = "n_done"
    /\ UNCHANGED <<nargs, gvars, rvars, pvars, cvars>>

\* generate_analysis_summary, lines 133-137 and 152: the deterministic
\* summary for an empty result, for a fallback and without a client
GenerateAnalysisSummary ==
    /\ npc = "n_ready"
    /\ IF nargs.result_df.rows # 0 /\ nargs.llm_client /\ ~nargs.is_fallback
       THEN /\ npc' = "n_llm"
            /\ UNCHANGED summary
       ELSE /\ summary' = create_fallback_summary(nargs.user_query, nargs.sql,
                                                  nargs.result_df, nargs.template_name)
            /\ npc' = "n_done"
    /\ UNCHANGED <<nargs, gvars, rvars, pvars, cvars>>

\* lines 139-145 with generate_summary_with_llm, lines 57-64: generate_summary
\* answers; the note is added for a template name
GenerateSummary ==
    /\ npc = "n_llm"
    /\ calls' = Append(calls, "generate_summary")
    /\ \E t \in SummaryTexts :
          summary' = [by |-> "generate_summary", rows |-> 0, text |-> t,
                      note |-> IF Truthy(nargs.template_name) THEN nargs.template_name ELSE None]
    /\ npc' = "n_done"
    /\ UNCHANGED <<nargs, gvars, rvars, cvars, pc, sales_data, llm_client, user_query,
                   llm_response, validated, found, executed_sql, result_df, is_fallback,
                   template_name, executed, results, shown, returned, response_content>>

\* lines 139-145 with generate_summary_with_llm, lines 57-67: generate_summary
\* (or to_csv) raises; the text of the exception is returned as the summary,
\* so that the handler of lines 147-149 has nothing to catch
GenerateSummaryRaises ==
    /\ npc = "n_llm"
    /\ calls' = calls \o <<"generate_summary", "generate_summary raised">>
    /\ summary' = [by |-> "error_text", rows |-> 0, text |-> "exception",
                   note |-> IF Truthy(nargs.template_name) THEN nargs.template_name ELSE None]
    /\ npc' = "n_done"
    /\ UNCHANGED <<nargs, gvars, rvars, cvars, pc, sales_data, llm_client, user_query,
                   llm_response, validated, found, executed_sql, result_df, is_fallback,
                   template_name, executed, results, shown, returned, response_content>>

Next ==
    \/ Start
    \/ GenerateSql
    \/ GenerateSqlRaises
    \/ Validate
    \/ Execute
    \/ ExecuteRaises
    \/ ResolveFallback
    \/ ExecuteFallback
    \/ ExecuteFallbackRaises
    \/ Return
    \/ Handle
    \/ GenerateAnalysisSummary
    \/ GenerateSummary
    \/ GenerateSummaryRaises
    \/ ShowSummary

Spec == PipelineInit /\ [][Next]_vars

\* the same runs, each step of which is taken in the end: the calls of a run
\* are synchronous and the run goes on after each of them
SpecLive == Spec /\ WF_vars(Next)

(***************************************************************************)
(* Callers of generate_analysis_summary with every combination of its      *)
(* arguments.                                                              *)
(***************************************************************************)
NarrationNames ==
    {None, Some(DEFAULT_NAME)} \cup {Some(get_fallback_templates[i].name) : i \in DOMAIN get_fallback_templates}

NarrationInit ==
    /\ npc = "n_ready"
    /\ nargs \in [llm_client : BOOLEAN, user_query : PipelineQueries,
                  sql : {Some(get_default_query)}, result_df : {[rows |-> n] : n \in 0..MaxRows},
                  is_fallback : BOOLEAN, template_name : NarrationNames]
    /\ summary = NoSummary
    /\ GuardIdle
    /\ ResolverIdle
    /\ PipelineIdle
    /\ ConcurrencyIdle

NarrationNext == GenerateAnalysisSummary \/ GenerateSummary \/ GenerateSummaryRaises

SpecNarration == NarrationInit /\ [][NarrationNext]_vars

(***************************************************************************)
(* Properties of process_user_query (checked under Spec).                  *)
(***************************************************************************)
\* C1: in every run, every string passed to the Analytics Engine is the
\* string the Guard returned in this run, or the sql the Template Resolver
\* returned in this run (a template of the registry or the default query);
\* the raw answer of the model is never executed.
C1_OnlyGuardedOrTemplateSql ==
    \A k \in DOMAIN executed :
        /\ \/ validated.err = "None" /\ executed[k] = validated.sql
           \/ found # NotResolved /\ executed[k] = found.sql /\ found.sql \in RegistrySqls
        /\ executed[k] # llm_response

\* C1 witness: a run executed the Guard's output, which gave no row, and then
\* the template's sql
C1_Witness ==
    /\ pc = "returned"
    /\ Len(executed) = 2
    /\ validated.err = "None" /\ executed[1] = validated.sql
    /\ executed[2] = found.sql /\ executed[2] # executed[1]

\* f was called in this run (or, for "f raised", raised in it)
Called(f) == \E k \in DOMAIN calls : calls[k] = f

\* the pair find_best_template returns for the user text of the run
Resolved ==
    LET r == find_best_template(user_query) IN [sql |-> r[1], name |-> Some(r[2])]

\* the run returned the outcome of a fallback: the pair of the Template
\* Resolver, flagged, with the result of the template's execution
FallbackOutcome ==
    /\ returned.done
    /\ returned.is_fallback
    /\ Called("find_best_template") /\ found = Resolved
    /\ returned.executed_sql = Some(found.sql)
    /\ returned.template_name = found.name
    /\ executed # <<>> /\ executed[Len(executed)] = found.sql
    /\ returned.result_df.rows = results[Len(results)].rows

\* the Guard accepted the model's query and its execution gave no row
ZeroRowsPrimary ==
    /\ validated.err = "None"
    /\ results # <<>> /\ results[1] = Fetched(0)

\* C12: whenever the Guard accepts the model's query and its execution gives
\* zero rows, the run goes on to resolve and execute a template query, the
\* empty result is replaced by the template's result, and the outcome
\* returned has is_fallback = TRUE and the template's sql as executed_sql.
C12_ZeroRowsFallsBack ==
    /\ ZeroRowsPrimary ~> (FallbackOutcome /\ Len(executed) = 2 /\ executed[1] = validated.sql)
    /\ [](ZeroRowsPrimary /\ returned.done => FallbackOutcome)

\* C12 witness: a run whose validated query gave zero rows handed the
\* template's rows to the chat handler
C12_Witness ==
    /\ pc = "done"
    /\ ZeroRowsPrimary
    /\ FallbackOutcome
    /\ returned.result_df.rows > 0

\* C13 (as claimed): without a client generate_sql and the Guard are never
\* called; the first calls of the run are the Template Resolver and the
\* execution of its query, and the outcome has is_fallback = TRUE.
C13_NoClientDirectFallback ==
    ~llm_client =>
        /\ ~Called("generate_sql") /\ ~Called("validate_and_sanitize_sql")
        /\ returned.done =>
              /\ Len(calls) >= 2 /\ SubSeq(calls, 1, 2) = <<"find_best_template", "execute">>
              /\ returned.is_fallback

\* C13 (amended): with data loaded and without a client generate_sql and the
\* Guard are never called, the only calls of process_user_query are the
\* Template Resolver and the execution of its query, and the outcome is that
\* of the fallback; without data the run returns at once, flagged as
\* fallback, and calls nothing.
C13_NoClientDirectFallbackWithData ==
    ~llm_client =>
        /\ ~Called("generate_sql") /\ ~Called("validate_and_sanitize_sql")
        /\ (sales_data /\ returned.done) =>
              /\ SubSeq(calls, 1, 2) = <<"find_best_template", "execute">>
              /\ FallbackOutcome
        /\ (~sales_data /\ returned.done) =>
              /\ calls = <<>>
              /\ returned.is_fallback /\ returned.template_name = None

\* C13 witness: a run without a client, with data, returned the fallback
C13_Witness ==
    /\ ~llm_client /\ sales_data
    /\ pc = "returned"
    /\ calls = <<"find_best_template", "execute">>
    /\ FallbackOutcome

\* a failure on the primary path: the Guard raised, generate_sql raised, or
\* the engine raised on the validated query
GuardViolation == validated.err \notin {"None", "NotCalled"}
GenerationError == Called("generate_sql raised")
PrimaryEngineError == validated.err = "None" /\ results # <<>> /\ results[1] = EngineError
PrimaryFailed == GuardViolation \/ GenerationError \/ PrimaryEngineError

\* C14: every failure on the primary path is recovered locally: after a
\* violation raised by the Guard, an error raised by generate_sql or an
\* engine error on the validated query, process_user_query raises nothing,
\* resolves and executes the fallback template and returns an outcome with
\* is_fallback = TRUE.
C14_PrimaryFailureRecovered ==
    /\ PrimaryFailed ~> FallbackOutcome
    /\ [](pc # "raised")
    /\ [](PrimaryFailed /\ returned.done => FallbackOutcome)

\* C14 witness: the engine raised on the validated query and the run
\* returned the fallback's rows
C14_Witness ==
    /\ pc = "returned"
    /\ PrimaryEngineError
    /\ FallbackOutcome
    /\ Len(executed) = 2

\* the execution of the fallback template raised
FallbackEngineError ==
    /\ pc \in {"return", "returned", "summarize", "done"}
    /\ Called("find_best_template")
    /\ results[Len(results)] = EngineError

\* the outcome of a run whose fallback execution succeeded with zero rows
ZeroRowsFallbackOutcome ==
    [done |-> TRUE, executed_sql |-> Some(found.sql), result_df |-> EmptyFrame,
     is_fallback |-> TRUE, template_name |-> found.name]

\* C15: if the execution of the fallback template raises an engine error, the
\* outcome handed to the caller is an explicit failure: it differs from the
\* outcome of a fallback that succeeded with zero rows, and the chat handler
\* does not answer it as an ordinary empty result.
C15_FallbackErrorExplicit ==
    (FallbackEngineError /\ returned.done) =>
        /\ returned # ZeroRowsFallbackOutcome
        /\ pc = "done" => response_content.what # "no_data_found"

\* the deterministic summary of the arguments of generate_analysis_summary
DeterministicSummary ==
    create_fallback_summary(nargs.user_query, nargs.sql, nargs.result_df, nargs.template_name)

\* C16: called with a client, without fallback and with rows, if
\* generate_summary fails the summary returned is that of
\* create_fallback_summary, and no error text is returned as the summary.
C16_SummaryFailureDegrades ==
    (npc = "n_done" /\ Called("generate_summary raised")) =>
        /\ summary = DeterministicSummary
        /\ summary.by # "error_text"

\* C17: whenever is_fallback is TRUE or the result is empty, the summary is
\* that of create_fallback_summary and generate_summary is never called.
C17_FallbackOrEmptyIsDeterministic ==
    (nargs.is_fallback \/ nargs.result_df.rows = 0) =>
        /\ ~Called("generate_summary")
        /\ npc # "n_llm"
        /\ npc = "n_done" => summary = DeterministicSummary

\* C17 witness: with a client and without fallback, an empty result got the
\* deterministic summary
C17_Witness ==
    /\ npc = "n_done"
    /\ nargs.llm_client /\ ~nargs.is_fallback
    /\ nargs.result_df.rows = 0
    /\ summary.by = "create_fallback_summary"

(***************************************************************************)
(* Concurrent sessions.  Streamlit runs the script of each session in a    *)
(* thread of its own; load_csv_to_dataframe and create_duckdb_connection   *)
(* are cached (data_loader.py:9 and :30), so that every session gets the   *)
(* same connection object.  db_conn.execute(sql) leaves its result in the  *)
(* connection and returns the connection; fetchdf() takes the result the   *)
(* connection holds.  The two calls of line 66 are two steps, and steps of *)
(* other sessions may come between them.                                   *)
(***************************************************************************)
MaxRuns == 2       \* concurrent sessions

RunIds == 1..MaxRuns

\* the user texts and the answers of generate_sql of the concurrent runs
ConcurrentQueries == {q \in PipelineQueries : Len(q) \in {1, 2}}
ConcurrentResponses ==
    {r \in PipelineResponses : GuardAnswers[r].err \in {"None", "NoSqlBlockFound", "ForbiddenKeyword"}}

\* lines 74-77: a run at its start
NewRun(text) ==
    [pc |-> "start", user_query |-> text, llm_response |-> <<>>, validated |-> NotCalled,
     found |-> NotResolved, executed_sql |-> None, result_df |-> EmptyFrame,
     is_fallback |-> FALSE, template_name |-> None,
     answers |-> <<>>,      \* what the engine computed for the queries of this run
     fetched |-> <<>>,      \* what execute_sql_query got for them
     shown |-> <<>>, returned |-> NotReturned]

ConcurrentInit ==
    /\ runs \in [RunIds -> {NewRun(q) : q \in ConcurrentQueries}]
    /\ conn = NoResult
    /\ GuardIdle
    /\ ResolverIdle
    /\ PipelineIdle
    /\ NarrationIdle

\* lines 80-84 and 109-111
RunStart(i) ==
    /\ runs[i].pc = "start"
    /\ runs' = [runs EXCEPT ![i] =
          IF ~sales_data
          THEN [@ EXCEPT !.pc = "returned",
                         !.returned = [done |-> TRUE, executed_sql |-> Some(NO_DATA_TEXT),
                                       result_df |-> EmptyFrame, is_fallback |-> TRUE,
                                       template_name |-> None]]
          ELSE IF llm_client
          THEN [@ EXCEPT !.pc = "generate"]
          ELSE [@ EXCEPT !.pc = "fallback", !.is_fallback = TRUE,
                         !.shown = Append(@, Message("warning", "no_client", ""))]]
    /\ UNCHANGED <<conn, gvars, rvars, pvars, nvars>>

\* lines 86-93
RunGenerateSql(i) ==
    /\ runs[i].pc = "generate"
    /\ \E r \in ConcurrentResponses :
          runs' = [runs EXCEPT ![i] = [@ EXCEPT !.pc = "validate", !.llm_response = r]]
    /\ UNCHANGED <<conn, gvars, rvars, pvars, nvars>>

\* lines 86-93 and 105-108
RunGenerateSqlRaises(i) ==
    /\ runs[i].pc = "generate"
    /\ runs' = [runs EXCEPT ![i] =
          [@ EXCEPT !.pc = "fallback", !.is_fallback = TRUE,
                    !.shown = @ \o <<Message("warning", "generation_error", "exception"),
                                     Message("info", "use_template", "")>>]]
    /\ UNCHANGED <<conn, gvars, rvars, pvars, nvars>>

\* lines 96 and 101-104
RunValidate(i) ==
    /\ runs[i].pc = "validate"
    /\ LET v == GuardAnswers[runs[i].llm_response]
       IN  runs' = [runs EXCEPT ![i] =
              IF v.err = "None"
              THEN [@ EXCEPT !.pc = "execute", !.validated = v, !.executed_sql = Some(v.sql)]
              ELSE [@ EXCEPT !.pc = "fallback", !.validated = v, !.is_fallback = TRUE,
                             !.shown = @ \o <<Message("warning", "security", v.err),
                                              Message("info", "use_template", "")>>]]
    /\ UNCHANGED <<conn, gvars, rvars, pvars, nvars>>

\* the position after execute_sql_query returned: line 99 or lines 116-117
AfterExecute(r, df) ==
    IF r.pc \in {"execute", "fetch"}
    THEN [r EXCEPT !.pc = "fallback", !.result_df = df]
    ELSE [r EXCEPT !.pc = "return", !.result_df = df, !.is_fallback = TRUE]

\* execute_sql_query, line 66, db_conn.execute(sql): the result of the query
\* is left in the connection
RunExecute(i) ==
    /\ runs[i].pc \in {"execute", "execute_fallback"}
    /\ \E n \in 0..MaxRows :
          /\ conn' = [owner |-> i, open |-> TRUE, rows |-> n]
          /\ runs' = [runs EXCEPT ![i] =
                [@ EXCEPT !.pc = IF @ = "execute" THEN "fetch" ELSE "fetch_fallback",
                          !.answers = Append(@, Fetched(n))]]
    /\ UNCHANGED <<gvars, rvars, pvars, nvars>>

\* execute_sql_query, lines 66 and 68-70: db_conn.execute(sql) raises
RunExecuteRaises(i) ==
    /\ runs[i].pc \in {"execute", "execute_fallback"}
    /\ runs' = [runs EXCEPT ![i] =
          AfterExecute([@ EXCEPT !.answers = Append(@, EngineError),
                                 !.fetched = Append(@, EngineError),
                                 !.shown = Append(@, Message("error", "engine_error", "exception"))],
                       EmptyFrame)]
    /\ UNCHANGED <<conn, gvars, rvars, pvars, nvars>>

\* execute_sql_query, lines 66-67, fetchdf(): the result the connection holds
\* is taken, whichever session left it there
RunFetch(i) ==
    /\ runs[i].pc \in {"fetch", "fetch_fallback"}
    /\ conn.open
    /\ conn' = [conn EXCEPT !.open = FALSE]
    /\ runs' = [runs EXCEPT ![i] =
          AfterExecute([@ EXCEPT !.fetched = Append(@, Fetched(conn.rows))], [rows |-> conn.rows])]
    /\ UNCHANGED <<gvars, rvars, pvars, nvars>>

\* execute_sql_query, lines 66-70, fetchdf() after another session took the
\* result: an exception, caught and shown, or a data frame without rows
RunFetchTaken(i) ==
    /\ runs[i].pc \in {"fetch", "fetch_fallback"}
    /\ ~conn.open
    /\ \/ runs' = [runs EXCEPT ![i] =
             AfterExecute([@ EXCEPT !.fetched = Append(@, EngineError),
                                    !.shown = Append(@, Message("error", "engine_error", "exception"))],
                          EmptyFrame)]
       \/ runs' = [runs EXCEPT ![i] =
             AfterExecute([@ EXCEPT !.fetched = Append(@, Fetched(0))], EmptyFrame)]
    /\ UNCHANGED <<conn, gvars, rvars, pvars, nvars>>

\* lines 114-115
RunResolveFallback(i) ==
    /\ runs[i].pc = "fallback"
    /\ LET r == ResolverAnswers[runs[i].user_query]
       IN  runs' = [runs EXCEPT ![i] =
              IF @.is_fallback \/ @.result_df.rows = 0
              THEN [@ EXCEPT !.pc = "execute_fallback",
                             !.found = [sql |-> r[1], name |-> Some(r[2])],
                             !.executed_sql = Some(r[1]), !.template_name = Some(r[2])]
              ELSE [@ EXCEPT !.pc = "return"]]
    /\ UNCHANGED <<conn, gvars, rvars, pvars, nvars>>

\* line 119
RunReturn(i) ==
    /\ runs[i].pc = "return"
    /\ runs' = [runs EXCEPT ![i] =
          [@ EXCEPT !.pc = "returned",
                    !.returned = [done |-> TRUE, executed_sql |-> runs[i].executed_sql,
                                  result_df |-> runs[i].result_df,
                                  is_fallback |-> runs[i].is_fallback,
                                  template_name |-> runs[i].template_name]]]
    /\ UNCHANGED <<conn, gvars, rvars, pvars, nvars>>

ConcurrentNext ==
    \E i \in RunIds :
        \/ RunStart(i)
        \/ RunGenerateSql(i)
        \/ RunGenerateSqlRaises(i)
        \/ RunValidate(i)
        \/ RunExecute(i)
        \/ RunExecuteRaises(i)
        \/ RunFetch(i)
        \/ RunFetchTaken(i)
        \/ RunResolveFallback(i)
        \/ RunReturn(i)

SpecConcurrent == ConcurrentInit /\ [][ConcurrentNext]_vars

(***************************************************************************)
(* Properties of concurrent runs (checked under SpecConcurrent).           *)
(***************************************************************************)
\* the outcome run i returns when it runs alone and the collaborators answer
\* it as they did: the Guard's query with the engine's rows for it, or the
\* template with the engine's answer to the template's query
SoloOutcome(i) ==
    LET r == runs[i]
        t == ResolverAnswers[r.user_query]
        last == r.answers[Len(r.answers)]
    IN  IF r.validated.err = "None" /\ r.answers[1].rows > 0
        THEN [done |-> TRUE, executed_sql |-> Some(r.validated.sql),
              result_df |-> [rows |-> r.answers[1].rows],
              is_fallback |-> FALSE, template_name |-> None]
        ELSE [done |-> TRUE, executed_sql |-> Some(t[1]), result_df |-> [rows |-> last.rows],
              is_fallback |-> TRUE, template_name |-> Some(t[2])]

\* C18: concurrent runs do not interfere: no run reads state another run
\* wrote (the result a run fetches from the connection is the result of its
\* own query), and the outcome of each run is the outcome it has when it
\* runs alone with the same answers of the collaborators.
C18_RunsDoNotInterfere ==
    \A i \in RunIds :
        /\ runs[i].pc \in {"fetch", "fetch_fallback"} => conn.owner = i /\ conn.open
        /\ runs[i].fetched = SubSeq(runs[i].answers, 1, Len(runs[i].fetched))
        /\ runs[i].returned.done => runs[i].returned = SoloOutcome(i)

\* the primary attempt of run i ended by a violation of the Guard or an
\* error of generate_sql
Rejected(i) ==
    \/ runs[i].validated.err \notin {"None", "NotCalled"}
    \/ \E k \in DOMAIN runs[i].shown : runs[i].shown[k].what = "generation_error"

\* C19: when the Guard rejects the candidate or generate_sql fails, nothing
\* shown or returned depends on the reason: two runs on the same user text
\* whose primary attempts ended so, and whose template query got the same
\* answer, have shown the same messages and returned the same outcome.
C19_ReasonInvisible ==
    \A i, j \in RunIds :
        ( /\ runs[i].returned.done /\ runs[j].returned.done
          /\ runs[i].user_query = runs[j].user_query
          /\ Rejected(i) /\ Rejected(j)
          /\ runs[i].fetched = runs[j].fetched )
        => /\ runs[i].shown = runs[j].shown
           /\ runs[i].returned = runs[j].returned

(***************************************************************************)
(* Properties of a whole run: process_user_query, the chat handler and     *)
(* generate_analysis_summary (checked under SpecLive and Spec).            *)
(***************************************************************************)
\* how often f was called in this run
Count(f) == Cardinality({k \in DOMAIN calls : calls[k] = f})

\* the calls made before the Template Resolver was called, and those after
BeforeResolver ==
    IF Called("find_best_template")
    THEN SubSeq(calls, 1, (CHOOSE k \in DOMAIN calls : calls[k] = "find_best_template") - 1)
    ELSE calls
AfterResolver ==
    IF Called("find_best_template")
    THEN SubSeq(calls, (CHOOSE k \in DOMAIN calls : calls[k] = "find_best_template") + 1, Len(calls))
    ELSE <<>>

\* how often f occurs in a sequence of calls
CountIn(cs, f) == Cardinality({k \in DOMAIN cs : cs[k] = f})

\* C21: every run terminates; in one run generate_sql, the Guard, the
\* Template Resolver and generate_summary are each called at most once and
\* the engine at most twice, at most once with the validated query and at
\* most once with the fallback query; the fallback query is executed only
\* after the primary attempt has finished.
C21_TerminatesWithBoundedCalls ==
    /\ <>(pc = "done")
    /\ [](/\ Count("generate_sql") <= 1
          /\ Count("validate_and_sanitize_sql") <= 1
          /\ Count("find_best_template") <= 1
          /\ Count("generate_summary") <= 1
          /\ Count("execute") <= 2 /\ Len(executed) = Count("execute")
          /\ CountIn(BeforeResolver, "execute") <= 1
          /\ CountIn(AfterResolver, "execute") <= 1
          /\ CountIn(BeforeResolver, "execute") = 1 =>
                validated.err = "None" /\ executed[1] = validated.sql
          /\ CountIn(AfterResolver, "execute") = 1 => executed[Len(executed)] = found.sql
          /\ CountIn(AfterResolver, "generate_sql") = 0
          /\ CountIn(AfterResolver, "validate_and_sanitize_sql") = 0
          /\ pc \in {"generate", "validate", "execute"} => ~Called("find_best_template"))

\* C21 witness: a finished run that called each collaborator as often as a
\* run can: generate_sql, the Guard, the engine, the Template Resolver, the
\* engine again
C21_Witness ==
    /\ pc = "done"
    /\ calls = <<"generate_sql", "validate_and_sanitize_sql", "execute",
                 "find_best_template", "execute">>

\* C22: in every outcome returned with data loaded the flag and the template
\* name agree: without the flag there is no template name, the sql is the
\* Guard's output and the result has a row; with the flag the sql and the
\* template name are the pair find_best_template returns for the user text.
C22_FlagAndTemplateAgree ==
    (sales_data /\ returned.done) =>
        /\ ~returned.is_fallback =>
              /\ returned.template_name = None
              /\ validated.err = "None" /\ returned.executed_sql = Some(validated.sql)
              /\ returned.result_df.rows >= 1
        /\ returned.is_fallback =>
              /\ returned.executed_sql = Some(Resolved.sql)
              /\ returned.template_name = Resolved.name

\* C22 witness: an outcome without the flag, with the Guard's sql and rows
C22_Witness ==
    /\ sales_data /\ returned.done
    /\ ~returned.is_fallback
    /\ returned.executed_sql = Some(validated.sql)
    /\ returned.result_df.rows >= 1

====
